---- MODULE Spec2Model ----
(***************************************************************************)
(* Model of tools/commit_batch_big_picture.py: the commit selection        *)
(* resolver parse_commit_selection and the git history it queries.         *)
(*                                                                         *)
(* A string is a sequence of one-character strings.  A commit is a number  *)
(* 1..NumCommits; the numbers follow the commit dates, so a parent always  *)
(* has a smaller number than its children and "git rev-list" (newest       *)
(* first) lists commits by descending number.                              *)
(***************************************************************************)
EXTENDS Integers, Sequences, FiniteSets, TLC

\* ------------------------------------------------------------------ bounds
MaxLen == 5

NumCommits == 5

\* ------------------------------------------------------------ input space
TokenChars == {"a", "b", "c"}

Alphabet == TokenChars \cup {"-", ",", " "}

Strings == UNION {[1..n -> Alphabet] : n \in 0..MaxLen}

Commits == 1..NumCommits

NotFound == 0

\* ----------------------------------------------------------- git histories
\* The parents of every commit, first parent first.
LinearParents == [c \in Commits |-> IF c = 1 THEN <<>> ELSE <<c - 1>>]

\* 1 is the root, 2 and 3 are two branches off 1, 4 merges 2 into 3.
DiamondParents ==
    [c \in Commits |->
        CASE c = 1 -> <<>>
          [] c = 2 -> <<1>>
          [] c = 3 -> <<1>>
          [] c = 4 -> <<3, 2>>
          [] OTHER -> <<c - 1>>]

\* 1 and 2 are unrelated roots, 3 merges 2 into 1.
ForestParents ==
    [c \in Commits |->
        CASE c = 1 -> <<>>
          [] c = 2 -> <<>>
          [] c = 3 -> <<1, 2>>
          [] OTHER -> <<c - 1>>]

\* 3 and 4 are two branches off 2, which is not a root; 5 merges 4 into 3.
BranchParents ==
    [c \in Commits |->
        CASE c = 1 -> <<>>
          [] c = 2 -> <<1>>
          [] c = 3 -> <<2>>
          [] c = 4 -> <<2>>
          [] c = 5 -> <<3, 4>>
          [] OTHER -> <<c - 1>>]

\* What "git rev-parse --verify <name>^{commit}" knows: the names of a
\* repository and the commit each one names.
RefNames == {<<"a">>, <<"b">>, <<"c">>, <<"a", "b">>}

MkRefs(a, b, c, ab) ==
    [n \in RefNames |->
        CASE n = <<"a">> -> a
          [] n = <<"b">> -> b
          [] n = <<"c">> -> c
          [] OTHER -> ab]

\* the linear history in which a names the first commit, b the second and c
\* the last
LinearHistory == [parents |-> LinearParents, refs |-> MkRefs(1, 2, NumCommits, 2)]

Histories ==
    { LinearHistory,
      [parents |-> LinearParents,  refs |-> MkRefs(2, NumCommits, 3, NumCommits)],
      [parents |-> DiamondParents, refs |-> MkRefs(3, 4, 2, 1)],
      [parents |-> DiamondParents, refs |-> MkRefs(2, NumCommits, 4, 3)],
      [parents |-> ForestParents,  refs |-> MkRefs(1, NumCommits, 3, 2)],
      [parents |-> ForestParents,  refs |-> MkRefs(3, NumCommits, 2, 1)],
      [parents |-> BranchParents,  refs |-> MkRefs(3, 5, 2, 4)] }

\* ------------------------------------------------------- string functions
IsSpace(ch) == ch = " "

RECURSIVE LStrip(_)
LStrip(s) ==
    IF s # <<>> /\ IsSpace(Head(s)) THEN LStrip(Tail(s)) ELSE s

RECURSIVE RStrip(_)
RStrip(s) ==
    IF s # <<>> /\ IsSpace(s[Len(s)]) THEN RStrip(SubSeq(s, 1, Len(s) - 1)) ELSE s

\* str.strip()
Strip(s) == RStrip(LStrip(s))

NotSpace(ch) == ~IsSpace(ch)

\* a cleaning that only trims the segment
RemoveWhitespaceTrimOnly(s) == Strip(s)

\* re.sub(r"\s+", "", s)
RemoveWhitespace(s) == SelectSeq(s, NotSpace)

\* str.count(ch)
Count(s, ch) == Cardinality({i \in 1..Len(s) : s[i] = ch})

\* ch in s
Contains(s, ch) == \E i \in 1..Len(s) : s[i] = ch

FirstIndex(s, ch) ==
    CHOOSE i \in 1..Len(s) : s[i] = ch /\ \A j \in 1..(i - 1) : s[j] # ch

\* str.split(ch): every separator starts a new piece, empty pieces are kept
RECURSIVE Split(_, _)
Split(s, ch) ==
    IF ~Contains(s, ch) THEN <<s>>
    ELSE LET i == FirstIndex(s, ch)
         IN  <<SubSeq(s, 1, i - 1)>> \o Split(SubSeq(s, i + 1, Len(s)), ch)

\* str.split(ch, 1): the text before and after the first separator
SplitFirst(s, ch) ==
    LET i == FirstIndex(s, ch)
    IN  <<SubSeq(s, 1, i - 1), SubSeq(s, i + 1, Len(s))>>

SeqRange(s) == {s[i] : i \in 1..Len(s)}

\* ------------------------------------------------------------ git queries
RECURSIVE Reach(_, _)
\* the commits reachable from c: c and all its ancestors
Reach(h, c) ==
    {c} \cup UNION {Reach(h, h.parents[c][i]) : i \in 1..Len(h.parents[c])}

RECURSIVE Ascending(_)
Ascending(S) ==
    IF S = {} THEN <<>>
    ELSE LET m == CHOOSE x \in S : \A y \in S : x <= y
         IN  <<m>> \o Ascending(S \ {m})

\* git rev-parse --verify <token>^{commit}: the commit, or NotFound when the
\* command exits non-zero
RevParse(h, token) ==
    IF token \in DOMAIN h.refs THEN h.refs[token] ELSE NotFound

\* the ancestry test with its arguments swapped
IsAncestorStatusSwapped(h, a, b) == IF b \in Reach(h, a) THEN 0 ELSE 1

\* git merge-base --is-ancestor a b: exit status 0 iff a is reachable from b
IsAncestorStatus(h, a, b) == IF a \in Reach(h, b) THEN 0 ELSE 1

\* git rev-list --reverse start^..end.  start^ is the first parent of start;
\* a root has none and git exits non-zero ("unknown revision").  Otherwise
\* the output is every commit reachable from end and not from start^,
\* oldest first.
RevListFails(h, start) == h.parents[start] = <<>>

RevListReverse(h, start, end) ==
    Ascending(Reach(h, end) \ Reach(h, h.parents[start][1]))

\* ------------------------------------------------------------- exceptions
\* An exception is its class and its message: the text the message starts
\* with, the token it quotes (resolve_commit only) and the text it ends with.
NoExc == [type |-> "none", head |-> "", token |-> <<>>, reason |-> ""]

SelectionParseError(head, reason) ==
    [type |-> "SelectionParseError", head |-> head, token |-> <<>>, reason |-> reason]

\* "Invalid commit selection token '{token}' in '{original}' ..."
TokenError(token, reason) ==
    [type |-> "SelectionParseError", head |-> "Invalid commit selection token",
     token |-> token, reason |-> reason]

\* subprocess.run(..., check=True) on a non-zero exit status
CalledProcessError ==
    [type |-> "CalledProcessError", head |-> "", token |-> <<>>,
     reason |-> "non-zero exit status"]

Query(op, tok, a, b) == [op |-> op, tok |-> tok, a |-> a, b |-> b]

\* ---------------------------------------------------------- resolve_commit
\* resolve_commit without its check for an empty token
ResolveCommitUnchecked(h, token) ==
    LET cleaned == Strip(token)
        resolved == RevParse(h, cleaned)
        q == <<Query("rev-parse", cleaned, 0, 0)>>
    IN  IF resolved = NotFound
        THEN [exc |-> TokenError(token, "Commit hash not found."),
              commit |-> NotFound, queries |-> q]
        ELSE [exc |-> NoExc, commit |-> resolved, queries |-> q]

ResolveCommit(h, token) ==
    LET cleaned == Strip(token)
    IN  IF cleaned = <<>>
        THEN [exc |-> TokenError(token, "Commit hashes cannot be empty."),
              commit |-> NotFound, queries |-> <<>>]
        ELSE LET resolved == RevParse(h, cleaned)
                 q == <<Query("rev-parse", cleaned, 0, 0)>>
             IN  IF resolved = NotFound
                 THEN [exc |-> TokenError(token, "Commit hash not found."),
                       commit |-> NotFound, queries |-> q]
                 ELSE [exc |-> NoExc, commit |-> resolved, queries |-> q]

\* -------------------------------------------------- parse_commit_selection
\* an append loop that marks the commits seen and appends none
AppendSeenOnly(sel, sn, commits) ==
    [selected |-> sel, seen |-> sn \cup SeqRange(commits)]

\* the append loop without the membership test
AppendAll(sel, sn, commits) ==
    [selected |-> sel \o commits, seen |-> sn \cup SeqRange(commits)]

\* for commit in commits: if commit not in seen: seen.add(commit);
\* selected.append(commit)
RECURSIVE AppendNew(_, _, _)
AppendNew(sel, sn, commits) ==
    IF commits = <<>> THEN [selected |-> sel, seen |-> sn]
    ELSE LET commit == Head(commits)
         IN  IF commit \notin sn
             THEN AppendNew(Append(sel, commit), sn \cup {commit}, Tail(commits))
             ELSE AppendNew(sel, sn, Tail(commits))

Raised(exc, sel, sn, qs) ==
    [exc |-> exc, selected |-> sel, seen |-> sn, queries |-> qs]

Appended(acc, qs) ==
    [exc |-> NoExc, selected |-> acc.selected, seen |-> acc.seen, queries |-> qs]

\* the else branch of the loop body: a single commit
SingleStep(h, cleaned, sel, sn) ==
    LET r == ResolveCommit(h, cleaned)
    IN  IF r.exc # NoExc THEN Raised(r.exc, sel, sn, r.queries)
        ELSE Appended(AppendNew(sel, sn, <<r.commit>>), r.queries)

\* a range branch that resolves the end token before the start token
RangeStepEndFirst(h, cleaned, sel, sn) ==
    LET tokens == SplitFirst(cleaned, "-")
        e == ResolveCommit(h, tokens[2])
    IN  IF e.exc # NoExc THEN Raised(e.exc, sel, sn, e.queries)
        ELSE
        LET s == ResolveCommit(h, tokens[1])
            q2 == e.queries \o s.queries
        IN  IF s.exc # NoExc THEN Raised(s.exc, sel, sn, q2)
            ELSE
            LET q3 == Append(q2, Query("is-ancestor", <<>>, s.commit, e.commit))
            IN  IF IsAncestorStatus(h, s.commit, e.commit) # 0
                THEN Raised(SelectionParseError("Invalid commit range",
                                                "start must be an ancestor of end."),
                            sel, sn, q3)
                ELSE
                LET q4 == Append(q3, Query("rev-list", <<>>, s.commit, e.commit))
                IN  IF RevListFails(h, s.commit)
                    THEN Raised(CalledProcessError, sel, sn, q4)
                    ELSE Appended(AppendNew(sel, sn,
                                            RevListReverse(h, s.commit, e.commit)), q4)

\* the body of `if "-" in cleaned` once the segment holds exactly one "-"
RangeStep(h, cleaned, sel, sn) ==
    LET tokens == SplitFirst(cleaned, "-")
        s == ResolveCommit(h, tokens[1])
    IN  IF s.exc # NoExc THEN Raised(s.exc, sel, sn, s.queries)
        ELSE
        LET e == ResolveCommit(h, tokens[2])
            q2 == s.queries \o e.queries
        IN  IF e.exc # NoExc THEN Raised(e.exc, sel, sn, q2)
            ELSE
            LET start == s.commit
                end == e.commit
                q3 == Append(q2, Query("is-ancestor", <<>>, start, end))
            IN  IF IsAncestorStatus(h, start, end) # 0
                THEN Raised(SelectionParseError("Invalid commit range",
                                                "start must be an ancestor of end."),
                            sel, sn, q3)
                ELSE
                LET q4 == Append(q3, Query("rev-list", <<>>, start, end))
                IN  IF RevListFails(h, start)
                    THEN Raised(CalledProcessError, sel, sn, q4)
                    ELSE
                    LET commits == RevListReverse(h, start, end)
                    IN  IF commits = <<>>
                        THEN Raised(SelectionParseError("Invalid commit range",
                                                        "no commits found."),
                                    sel, sn, q4)
                        ELSE Appended(AppendNew(sel, sn, commits), q4)

\* an iteration that takes every segment holding "-" for a range
SegmentStepAnyDashes(h, segment, sel, sn) ==
    LET cleaned == RemoveWhitespace(segment)
    IN  IF cleaned = <<>>
        THEN Raised(SelectionParseError("Invalid commit selection segment",
                                        "Expected format like 'abc123,def456-789abc'."),
                    sel, sn, <<>>)
        ELSE IF Contains(cleaned, "-") THEN RangeStep(h, cleaned, sel, sn)
        ELSE SingleStep(h, cleaned, sel, sn)

\* one iteration of `for segment in segments`
SegmentStep(h, segment, sel, sn) ==
    LET cleaned == RemoveWhitespace(segment)
    IN  IF cleaned = <<>>
        THEN Raised(SelectionParseError("Invalid commit selection segment",
                                        "Expected format like 'abc123,def456-789abc'."),
                    sel, sn, <<>>)
        ELSE IF Contains(cleaned, "-")
        THEN IF Count(cleaned, "-") # 1
             THEN Raised(SelectionParseError("Invalid commit range",
                                             "Expected format like 'abc123-789abc'."),
                         sel, sn, <<>>)
             ELSE RangeStep(h, cleaned, sel, sn)
        ELSE SingleStep(h, cleaned, sel, sn)

\* a split that drops the empty segments
SegmentsOfNonEmpty(selection) ==
    LET parts == Split(Strip(selection), ",")
        NonEmpty(part) == Strip(part) # <<>>
        kept == SelectSeq(parts, NonEmpty)
    IN  [i \in 1..Len(kept) |-> Strip(kept[i])]

\* segments = [segment.strip() for segment in trimmed.split(",")]
SegmentsOf(selection) ==
    LET parts == Split(Strip(selection), ",")
    IN  [i \in 1..Len(parts) |-> Strip(parts[i])]

\* the checks made before the loop: NoExc when the loop is entered
PreCheck(selection) ==
    IF Strip(selection) = <<>>
    THEN SelectionParseError("Invalid commit selection: empty input.",
                             "Expected format like 'abc123,def456-789abc'.")
    ELSE IF \E i \in 1..Len(SegmentsOf(selection)) : SegmentsOf(selection)[i] = <<>>
    THEN SelectionParseError("Invalid commit selection segment",
                             "Expected format like 'abc123,def456-789abc'.")
    ELSE NoExc

\* the for loop from segment i on, and the check after it (lines 89-137)
RECURSIVE RunSegments(_, _, _, _, _)
RunSegments(h, segs, i, sel, sn) ==
    IF i > Len(segs)
    THEN IF sel = <<>>
         THEN [exc |-> SelectionParseError("Invalid commit selection",
                                           "no commits parsed."),
               result |-> <<>>]
         ELSE [exc |-> NoExc, result |-> sel]
    ELSE LET step == SegmentStep(h, segs[i], sel, sn)
         IN  IF step.exc # NoExc
             THEN [exc |-> step.exc, result |-> <<>>]
             ELSE RunSegments(h, segs, i + 1, step.selected, step.seen)

\* parse_commit_selection as a function of its argument and the repository:
\* the exception it raises (NoExc when it returns) and the list it returns
ParseCommitSelection(h, selection) ==
    IF PreCheck(selection) # NoExc
    THEN [exc |-> PreCheck(selection), result |-> <<>>]
    ELSE RunSegments(h, SegmentsOf(selection), 1, <<>>, {})

\* ------------------------------------------------------ commit identifiers
\* The identifier git prints for a commit: IdLen hexadecimal digits.  Commits
\* 2 and 3 have identifiers that agree on their first ShortLen digits, all
\* other identifiers differ within them.
IdLen == 10

\* commit[:8]
ShortLen == 8

HexDigits == <<"0", "1", "2", "3", "4", "5", "6", "7", "8", "9",
               "a", "b", "c", "d", "e", "f">>

PrefixGroup(c) == IF c = 3 THEN 2 ELSE c

Sha(c) ==
    [i \in 1..IdLen |->
        IF i = ShortLen THEN HexDigits[PrefixGroup(c) + 1]
        ELSE IF i = IdLen THEN HexDigits[c + 1]
        ELSE "0"]

\* the list of identifiers parse_commit_selection returns
ShaList(commits) == [i \in 1..Len(commits) |-> Sha(commits[i])]

\* ----------------------------------------------- formatting (lines 140-163)
Min(a, b) == IF a <= b THEN a ELSE b

Max(a, b) == IF a >= b THEN a ELSE b

\* s[:n] for n >= 0
Prefix(s, n) == SubSeq(s, 1, Min(n, Len(s)))

\* s[k:] for any integer k: a negative k counts from the end
SliceFrom(s, k) ==
    LET from == IF k < 0 THEN Max(Len(s) + k, 0) ELSE Min(k, Len(s))
    IN  SubSeq(s, from + 1, Len(s))

RECURSIVE Join(_, _)
\* sep.join(items)
Join(items, sep) ==
    IF items = <<>> THEN <<>>
    ELSE IF Len(items) = 1 THEN items[1]
    ELSE items[1] \o sep \o Join(Tail(items), sep)

\* [commit[:8] for commit in commits]
Shortened(commits) == [i \in 1..Len(commits) |-> Prefix(commits[i], ShortLen)]

RECURSIVE Decimal(_)
\* str(n) for n >= 0
Decimal(n) ==
    IF n < 10 THEN <<HexDigits[n + 1]>>
    ELSE Decimal(n \div 10) \o <<HexDigits[(n % 10) + 1]>>

\* hashlib.sha1(text.encode("utf-8")).hexdigest()[:8], kept symbolic: the
\* digest of a text is only known to be a function of that text
Sha1Hex8(text) == [sha1_hex8_of |-> text]

\* a format that joins the full identifiers
FormatCommitSelectionFull(commits) == Join(commits, <<",">>)

\* format_commit_selection
FormatCommitSelection(commits) == Join(Shortened(commits), <<",">>)

\* a tag is the text before its digest, and its digest
Tag(text, digest) == [text |-> text, digest |-> digest]

\* a tag that names the last identifier before the first
BuildSelectionTagLastFirst(selected_commits, selection_canonical) ==
    LET selection_hash == Sha1Hex8(selection_canonical)
    IN  IF selected_commits = <<>>
        THEN Tag(<<"0", "c", "o", "m", "m", "i", "t", "s", "-">>, selection_hash)
        ELSE Tag(Prefix(selected_commits[Len(selected_commits)], ShortLen) \o <<"-">>
                    \o Prefix(selected_commits[1], ShortLen) \o <<"-">>
                    \o Decimal(Len(selected_commits))
                    \o <<"c", "o", "m", "m", "i", "t", "s", "-">>,
                 selection_hash)

\* build_selection_tag
BuildSelectionTag(selected_commits, selection_canonical) ==
    LET selection_hash == Sha1Hex8(selection_canonical)
    IN  IF selected_commits = <<>>
        THEN Tag(<<"0", "c", "o", "m", "m", "i", "t", "s", "-">>, selection_hash)
        ELSE Tag(Prefix(selected_commits[1], ShortLen) \o <<"-">>
                    \o Prefix(selected_commits[Len(selected_commits)], ShortLen) \o <<"-">>
                    \o Decimal(Len(selected_commits))
                    \o <<"c", "o", "m", "m", "i", "t", "s", "-">>,
                 selection_hash)

\* format_commit_list_preview
FormatCommitListPreview(commits, max_items, edge_items) ==
    LET shortened == Shortened(commits)
    IN  IF Len(shortened) <= max_items
        THEN Join(shortened, <<",", " ">>)
        ELSE LET head == Join(Prefix(shortened, edge_items), <<",", " ">>)
                 tail == Join(SliceFrom(shortened, 0 - edge_items), <<",", " ">>)
             IN  head \o <<" ", ".", ".", ".", " ">> \o tail

\* the defaults of format_commit_list_preview
DefaultMaxItems == 20

DefaultEdgeItems == 5

\* a preview: the arguments of format_commit_list_preview and its result
PreviewOf(commits, max_items, edge_items) ==
    [max_items |-> max_items, edge_items |-> edge_items,
     text |-> FormatCommitListPreview(commits, max_items, edge_items)]

NoPreview == [max_items |-> 0, edge_items |-> 0, text |-> <<>>]

NoTag == Tag(<<>>, Sha1Hex8(<<>>))

\* ------------------------------------------------------ main (lines 640-872)
\* a main that hashes the string it prints
TagInputShort(selected_commits) == FormatCommitSelection(selected_commits)

\* selection_canonical_full, the text main gives build_selection_tag to hash
TagInput(selected_commits) == Join(selected_commits, <<",">>)

\* a collection loop that puts the newest commit first
CollectInfoFirst(infos, sha) == <<sha>> \o infos

\* commit_infos.append(commit_info); a commit_info is known by its "sha"
CollectInfo(infos, sha) == Append(infos, sha)

\* what the body of the report loop can do to one commit
Outcomes ==
    {"files_failed", "no_files", "all_excluded", "report_raises",
     "logs_report_raises", "both_written"}

\* ---------------------------------------------------- arguments of direct calls
\* the lists of distinct identifiers
IdLists ==
    {ShaList(l) : l \in {q \in UNION {[1..n -> Commits] : n \in 0..NumCommits} :
                            \A i, j \in 1..Len(q) : i # j => q[i] # q[j]}}

MaxItemsArg == 3

MaxEdgeArg == 3

\* ------------------------------------------------------------------ state
VARIABLES
    hist,       \* the repository the git commands run in
    selection,  \* the argument of parse_commit_selection
    pc,         \* "start", "loop", "done"
    segments,   \* the local list segments
    idx,        \* the position of the for loop in segments
    selected,   \* the local list selected
    seen,       \* the local set seen
    queries,    \* the git commands run so far, in order
    exc,        \* the exception parse_commit_selection raised, or NoExc
    result,     \* the list parse_commit_selection returned
    mainpc,     \* where main is, or which function is called directly
    arg,        \* the list a directly called function is given
    selection_canonical,    \* main: the string printed as canonical selection
    tag_input,              \* the string build_selection_tag hashed
    selection_tag,          \* the tag build_selection_tag returned
    preview,                \* the last call of format_commit_list_preview
    cidx,                   \* the position of the running loop of main
    commit_infos,           \* main: commit_infos, by "sha"
    missing_commits,        \* main: missing_commits
    successful_commits,     \* main: successful_commits, by "sha"
    successful_commits_with_logs,   \* main: successful_commits_with_logs
    report_canonical        \* the canonical selection in the report headers

parsevars == <<hist, selection, pc, segments, idx, selected, seen, queries, exc, result>>

fmtvars == <<selection_canonical, tag_input, selection_tag, preview, report_canonical>>

loopvars ==
    <<cidx, commit_infos, missing_commits, successful_commits,
      successful_commits_with_logs>>

mainvars == <<mainpc, arg, fmtvars, loopvars>>

vars == <<parsevars, mainvars>>

MainIdle ==
    /\ selection_canonical = <<>>
    /\ tag_input = <<>>
    /\ selection_tag = NoTag
    /\ preview = NoPreview
    /\ report_canonical = <<>>
    /\ cidx = 1
    /\ commit_infos = <<>>
    /\ missing_commits = <<>>
    /\ successful_commits = <<>>
    /\ successful_commits_with_logs = <<>>

\* a run of main on a selection string, or a direct call of one of the
\* formatting functions on a list of identifiers
Init ==
    /\ \/ /\ mainpc = "parse"
          /\ hist \in Histories
          /\ selection \in Strings
          /\ arg = <<>>
       \/ /\ mainpc = "call"
          /\ hist = LinearHistory
          /\ selection = <<>>
          /\ arg \in IdLists
    /\ MainIdle
    /\ pc = "start"
    /\ segments = <<>>
    /\ idx = 1
    /\ selected = <<>>
    /\ seen = {}
    /\ queries = <<>>
    /\ exc = NoExc
    /\ result = <<>>

\* lines 71-87: trim, split, reject empty input and empty segments
Start ==
    /\ mainpc = "parse"
    /\ pc = "start"
    /\ IF PreCheck(selection) # NoExc
       THEN /\ exc' = PreCheck(selection)
            /\ pc' = "done"
            /\ segments' = IF Strip(selection) = <<>> THEN <<>> ELSE SegmentsOf(selection)
       ELSE /\ exc' = exc
            /\ pc' = "loop"
            /\ segments' = SegmentsOf(selection)
    /\ UNCHANGED <<hist, selection, idx, selected, seen, queries, result>>
    /\ UNCHANGED mainvars

Iterate(step) ==
    /\ selected' = step.selected
    /\ seen' = step.seen
    /\ queries' = queries \o step.queries
    /\ exc' = step.exc
    /\ IF step.exc # NoExc
       THEN pc' = "done" /\ idx' = idx
       ELSE pc' = "loop" /\ idx' = idx + 1
    /\ UNCHANGED <<hist, selection, segments, result>>
    /\ UNCHANGED mainvars

\* an iteration on a segment without "-"
ProcessSingle ==
    /\ pc = "loop"
    /\ idx <= Len(segments)
    /\ ~Contains(RemoveWhitespace(segments[idx]), "-")
    /\ Iterate(SegmentStep(hist, segments[idx], selected, seen))

\* an iteration on a segment with exactly one "-"
ProcessRange ==
    /\ pc = "loop"
    /\ idx <= Len(segments)
    /\ Count(RemoveWhitespace(segments[idx]), "-") = 1
    /\ Iterate(SegmentStep(hist, segments[idx], selected, seen))

\* an iteration on a segment with more than one "-"
RejectRange ==
    /\ pc = "loop"
    /\ idx <= Len(segments)
    /\ Count(RemoveWhitespace(segments[idx]), "-") > 1
    /\ Iterate(SegmentStep(hist, segments[idx], selected, seen))

\* lines 132-137: after the loop
Finish ==
    /\ pc = "loop"
    /\ idx > Len(segments)
    /\ pc' = "done"
    /\ IF selected = <<>>
       THEN /\ exc' = SelectionParseError("Invalid commit selection",
                                          "no commits parsed.")
            /\ result' = result
       ELSE /\ exc' = exc
            /\ result' = selected
    /\ UNCHANGED <<hist, selection, segments, idx, selected, seen, queries>>
    /\ UNCHANGED mainvars

\* lines 640-666: main goes on only when parse_commit_selection returned:
\* canonical string, tag and preview of the selection; then branch check,
\* fetch and repository lookup, each of which can end main
Announce ==
    /\ mainpc = "parse"
    /\ pc = "done"
    /\ exc = NoExc
    /\ LET selected_commits == ShaList(result)
       IN  /\ tag_input' = TagInput(selected_commits)
           /\ selection_canonical' = FormatCommitSelection(selected_commits)
           /\ selection_tag' = BuildSelectionTag(selected_commits, tag_input')
           /\ preview' = IF selected_commits # <<>>
                         THEN PreviewOf(selected_commits, DefaultMaxItems,
                                        DefaultEdgeItems)
                         ELSE preview
    /\ \E ready \in BOOLEAN : mainpc' = IF ready THEN "collect" ELSE "exit"
    /\ UNCHANGED <<parsevars, arg, report_canonical, loopvars>>

\* lines 669-678: one iteration of the loop over selected_commits
Collect ==
    /\ mainpc = "collect"
    /\ cidx <= Len(result)
    /\ \E found \in BOOLEAN :
          IF found
          THEN /\ commit_infos' = CollectInfo(commit_infos, Sha(result[cidx]))
               /\ missing_commits' = missing_commits
          ELSE /\ commit_infos' = commit_infos
               /\ missing_commits' = Append(missing_commits, Sha(result[cidx]))
    /\ cidx' = cidx + 1
    /\ UNCHANGED <<parsevars, mainpc, arg, fmtvars, successful_commits,
                   successful_commits_with_logs>>

\* lines 680-686: after the loop over selected_commits
CollectDone ==
    /\ mainpc = "collect"
    /\ cidx > Len(result)
    /\ mainpc' = IF commit_infos = <<>> THEN "exit" ELSE "process"
    /\ cidx' = 1
    /\ UNCHANGED <<parsevars, arg, fmtvars, commit_infos, missing_commits,
                   successful_commits, successful_commits_with_logs>>

\* lines 688-764: one iteration of the loop over commit_infos
Process ==
    /\ mainpc = "process"
    /\ cidx <= Len(commit_infos)
    /\ \E outcome \in Outcomes :
          /\ successful_commits' =
                 IF outcome \in {"logs_report_raises", "both_written"}
                 THEN Append(successful_commits, commit_infos[cidx])
                 ELSE successful_commits
          /\ successful_commits_with_logs' =
                 IF outcome = "both_written"
                 THEN Append(successful_commits_with_logs, commit_infos[cidx])
                 ELSE successful_commits_with_logs
          /\ mainpc' =
                 IF outcome \in {"report_raises", "logs_report_raises"}
                 THEN "exit" ELSE "process"
    /\ cidx' = cidx + 1
    /\ UNCHANGED <<parsevars, arg, fmtvars, commit_infos, missing_commits>>

\* lines 766-872: the reports over all processed commits
ProcessDone ==
    /\ mainpc = "process"
    /\ cidx > Len(commit_infos)
    /\ mainpc' = "exit"
    /\ report_canonical' =
           IF successful_commits # <<>> \/ successful_commits_with_logs # <<>>
           THEN selection_canonical ELSE report_canonical
    /\ UNCHANGED <<parsevars, arg, selection_canonical, tag_input, selection_tag,
                   preview, loopvars>>

\* format_commit_selection(arg)
CallFormat ==
    /\ mainpc = "call"
    /\ mainpc' = "called_format"
    /\ selection_canonical' = FormatCommitSelection(arg)
    /\ UNCHANGED <<parsevars, arg, tag_input, selection_tag, preview,
                   report_canonical, loopvars>>

\* build_selection_tag(arg, text), text either join of arg
CallTag ==
    /\ mainpc = "call"
    /\ mainpc' = "called_tag"
    /\ \E full \in BOOLEAN :
          tag_input' = IF full THEN TagInput(arg) ELSE FormatCommitSelection(arg)
    /\ selection_tag' = BuildSelectionTag(arg, tag_input')
    /\ UNCHANGED <<parsevars, arg, selection_canonical, preview,
                   report_canonical, loopvars>>

\* format_commit_list_preview(arg, max_items, edge_items)
CallPreview ==
    /\ mainpc = "call"
    /\ mainpc' = "called_preview"
    /\ \E max_items \in 0..MaxItemsArg : \E edge_items \in 0..MaxEdgeArg :
          preview' = PreviewOf(arg, max_items, edge_items)
    /\ UNCHANGED <<parsevars, arg, selection_canonical, tag_input, selection_tag,
                   report_canonical, loopvars>>

Next ==
    \/ Start \/ ProcessSingle \/ ProcessRange \/ RejectRange \/ Finish
    \/ Announce \/ Collect \/ CollectDone \/ Process \/ ProcessDone
    \/ CallFormat \/ CallTag \/ CallPreview

Spec == Init /\ [][Next]_vars

TypeOK ==
    /\ pc \in {"start", "loop", "done"}
    /\ mainpc \in {"parse", "collect", "process", "exit", "call",
                   "called_format", "called_tag", "called_preview"}
    /\ cidx \in 1..(NumCommits + 1)
    /\ seen \subseteq Commits
    /\ SeqRange(selected) \subseteq Commits
    /\ idx \in 1..(MaxLen + 2)

\* the stepwise run ends as the function says
RunMatchesFunction ==
    pc = "done" =>
        [exc |-> exc, result |-> result] = ParseCommitSelection(hist, selection)

\* ------------------------------------------------- vocabulary of the claims
RECURSIVE WithoutSpaces(_)
\* s with every whitespace character taken out
WithoutSpaces(s) ==
    IF s = <<>> THEN <<>>
    ELSE IF Head(s) = " " THEN WithoutSpaces(Tail(s))
    ELSE <<Head(s)>> \o WithoutSpaces(Tail(s))

Dashes(s) == {i \in 1..Len(s) : s[i] = "-"}

\* the text before and after the only "-" of a range segment
StartToken(seg) ==
    LET c == WithoutSpaces(seg)
        i == CHOOSE k \in Dashes(c) : TRUE
    IN  SubSeq(c, 1, i - 1)

EndToken(seg) ==
    LET c == WithoutSpaces(seg)
        i == CHOOSE k \in Dashes(c) : TRUE
    IN  SubSeq(c, i + 1, Len(c))

IsSingleSeg(seg) == Cardinality(Dashes(WithoutSpaces(seg))) = 0

IsRangeSeg(seg) == Cardinality(Dashes(WithoutSpaces(seg))) = 1

Known(token) == token \in DOMAIN hist.refs

\* a range segment whose two tokens resolve
ResolvedRange(seg) ==
    IsRangeSeg(seg) /\ Known(StartToken(seg)) /\ Known(EndToken(seg))

StartOf(seg) == hist.refs[StartToken(seg)]

EndOf(seg) == hist.refs[EndToken(seg)]

\* start is an ancestor-or-self of end
AncestorOrSelf(a, b) == a \in Reach(hist, b)

ValidRange(seg) == ResolvedRange(seg) /\ AncestorOrSelf(StartOf(seg), EndOf(seg))

\* the commits on the ancestry path from a to b
AncestryPath(a, b) ==
    {c \in Commits : AncestorOrSelf(a, c) /\ AncestorOrSelf(c, b)}

Returned == pc = "done" /\ exc = NoExc

\* main has not gone past parse_commit_selection; what it does afterwards
\* leaves hist, selection, segments, queries, exc and result as they are
InParse == mainpc = "parse"

\* the loop was entered and segment k is the one an iteration raised on
RaisedOn(k) ==
    /\ pc = "done"
    /\ exc # NoExc
    /\ PreCheck(selection) = NoExc
    /\ k = idx
    /\ k <= Len(segments)

\* the iteration on segment k ended without an exception
Passed(k) == pc \in {"loop", "done"} /\ PreCheck(selection) = NoExc /\ k < idx

\* what git enumerates for a segment of a selection that resolves
Contribution(seg) ==
    IF IsSingleSeg(seg) THEN <<RevParse(hist, WithoutSpaces(seg))>>
    ELSE RevListReverse(hist, StartOf(seg), EndOf(seg))

RECURSIVE Scan(_)
\* the left-to-right scan of the segments
Scan(segs) ==
    IF segs = <<>> THEN <<>> ELSE Contribution(Head(segs)) \o Scan(Tail(segs))

FirstPos(scan, x) ==
    CHOOSE i \in 1..Len(scan) : scan[i] = x /\ \A j \in 1..(i - 1) : scan[j] # x

Increasing(s) == \A i, j \in 1..Len(s) : i < j => s[i] < s[j]

\* ------------------------------------------------------------------ claims
\* C1: a returned selection holds no identifier twice, holds exactly the
\* identifiers of the scan, and orders them by their first occurrence in the
\* left-to-right scan in which every range contributes its commits oldest
\* first; on the linear history 'a,b-c' (a the first commit, b-c the rest)
\* returns all commits in order.
C1_FirstOccurrenceOrder ==
    (InParse /\ Returned) =>
        LET scan == Scan(segments)
        IN  /\ \A i, j \in 1..Len(result) : i < j => result[i] # result[j]
            /\ SeqRange(result) = SeqRange(scan)
            /\ \A i, j \in 1..Len(result) :
                   i < j => FirstPos(scan, result[i]) < FirstPos(scan, result[j])
            /\ \A k \in 1..Len(segments) :
                   IsRangeSeg(segments[k]) => Increasing(Contribution(segments[k]))
            /\ (/\ hist = LinearHistory
                /\ selection = <<"a", ",", "b", "-", "c">>)
                   => result = [i \in 1..NumCommits |-> i]

\* the example of C1, and a selection whose scan reaches a commit twice
C1_Witness ==
    /\ Returned
    /\ hist = LinearHistory
    /\ selection = <<"a", ",", "b", "-", "c">>
    /\ result = [i \in 1..NumCommits |-> i]

C1_WitnessDuplicate ==
    /\ Returned
    /\ Len(Scan(segments)) > Len(result)
    /\ Len(result) > 1

\* C2: an iteration on a range whose tokens resolve and whose start is not
\* an ancestor-or-self of its end raises "start must be an ancestor of end"
\* after asking git about (start, end) in that order, without a rev-list
\* query, and nothing is returned.
C2_InvalidRangeRejected ==
    [][ (/\ pc = "loop"
         /\ idx <= Len(segments)
         /\ ResolvedRange(segments[idx])
         /\ ~AncestorOrSelf(StartOf(segments[idx]), EndOf(segments[idx])))
        => (/\ pc' = "done"
            /\ exc' = SelectionParseError("Invalid commit range",
                                          "start must be an ancestor of end.")
            /\ queries' = queries \o
                  << Query("rev-parse", StartToken(segments[idx]), 0, 0),
                     Query("rev-parse", EndToken(segments[idx]), 0, 0),
                     Query("is-ancestor", <<>>, StartOf(segments[idx]),
                           EndOf(segments[idx])) >>
            /\ selected' = selected
            /\ result' = <<>>) ]_vars

C2_Witness ==
    /\ pc = "done"
    /\ exc.reason = "start must be an ancestor of end."
    /\ selected # <<>>
    /\ result = <<>>

\* C3: every range whose start is an ancestor-or-self of its end is expanded
\* without an exception and leaves its start and its end in the selection,
\* also when the start is a root commit.
C3_RangeKeepsBothEnds ==
    \A k \in 1..Len(segments) :
        ValidRange(segments[k]) =>
            /\ ~RaisedOn(k)
            /\ Passed(k) => {StartOf(segments[k]), EndOf(segments[k])} \subseteq seen

\* C4: a range that is the first segment and is expanded leaves exactly the
\* commits of the ancestry path from start to end, oldest first, start
\* first and end last.
C4_RangeIsAncestryPath ==
    (Passed(1) /\ idx = 2 /\ pc = "loop" /\ ValidRange(segments[1])) =>
        /\ selected = Ascending(AncestryPath(StartOf(segments[1]), EndOf(segments[1])))
        /\ selected[1] = StartOf(segments[1])
        /\ selected[Len(selected)] = EndOf(segments[1])

\* C5: for every token t that resolves to X the selection 't-t' ends as the
\* selection 't' does, returning exactly [X].
C5_SelfRangeIsSingle ==
    \A t \in RefNames :
        (pc = "done" /\ selection = t \o <<"-">> \o t) =>
            /\ [exc |-> exc, result |-> result] = ParseCommitSelection(hist, t)
            /\ exc = NoExc
            /\ result = <<hist.refs[t]>>

\* the trimmed input is empty, or two places that bound a segment (the ends of
\* the trimmed input, a comma) have nothing but whitespace between them
HasEmptySegment(sel) ==
    LET t == Strip(sel)
        Bound(i) == i = 0 \/ i = Len(t) + 1 \/ t[i] = ","
    IN  \/ t = <<>>
        \/ \E i \in 0..Len(t) : \E j \in (i + 1)..(Len(t) + 1) :
              /\ Bound(i)
              /\ Bound(j)
              /\ \A k \in (i + 1)..(j - 1) : t[k] = " "

\* C6: an input that is empty after trimming, or that holds an empty
\* comma-separated segment, ends in the empty-input or the empty-segment
\* error as soon as parsing starts, with no git command run and nothing
\* returned.
C6_EmptySegmentRejected ==
    (InParse /\ pc # "start" /\ HasEmptySegment(selection)) =>
        /\ pc = "done"
        /\ exc.type = "SelectionParseError"
        /\ exc.head \in {"Invalid commit selection: empty input.",
                         "Invalid commit selection segment"}
        /\ (Strip(selection) = <<>>)
              <=> (exc.head = "Invalid commit selection: empty input.")
        /\ queries = <<>>
        /\ selected = <<>>
        /\ result = <<>>

\* 'a,,b' is rejected although both of its tokens resolve
C6_Witness ==
    /\ pc = "done"
    /\ selection = <<"a", ",", ",", "b">>
    /\ exc.head = "Invalid commit selection segment"
    /\ queries = <<>>

\* the git commands an iteration adds to the log
NewQueries == SubSeq(queries', Len(queries) + 1, Len(queries'))

\* C7: an iteration classifies its segment by the number of "-" left after
\* whitespace removal: none, and the whole segment is resolved as one token;
\* one, and the text before it is resolved as the start and the text after it
\* as the end; more, and the malformed-range error is raised with no git
\* command run.
C7_SegmentClassification ==
    [][ (pc = "loop" /\ idx <= Len(segments)) =>
        LET seg == segments[idx]
            n == Cardinality(Dashes(WithoutSpaces(seg)))
        IN  /\ n = 0 =>
                 NewQueries = <<Query("rev-parse", WithoutSpaces(seg), 0, 0)>>
            /\ n = 1 =>
                 /\ \A i \in 1..Len(NewQueries) :
                        NewQueries[i].op = "rev-parse" =>
                            NewQueries[i].tok \in {StartToken(seg), EndToken(seg)}
                 /\ StartToken(seg) # <<>> =>
                        /\ Len(NewQueries) >= 1
                        /\ NewQueries[1] = Query("rev-parse", StartToken(seg), 0, 0)
                 /\ (Known(StartToken(seg)) /\ EndToken(seg) # <<>>) =>
                        /\ Len(NewQueries) >= 2
                        /\ NewQueries[2] = Query("rev-parse", EndToken(seg), 0, 0)
                 /\ ResolvedRange(seg) =>
                        /\ Len(NewQueries) >= 3
                        /\ NewQueries[3] =
                               Query("is-ancestor", <<>>, StartOf(seg), EndOf(seg))
            /\ n >= 2 =>
                 /\ pc' = "done"
                 /\ exc' = SelectionParseError("Invalid commit range",
                                               "Expected format like 'abc123-789abc'.")
                 /\ NewQueries = <<>>
                 /\ result' = <<>> ]_vars

\* a segment with two "-" is rejected after an earlier segment was resolved
C7_Witness ==
    /\ pc = "done"
    /\ exc.reason = "Expected format like 'abc123-789abc'."
    /\ queries # <<>>
    /\ idx = 2

\* C8: every input ends as the same input with all whitespace removed does:
\* the same exception, or the same returned list.
C8_WhitespaceInsensitive ==
    (InParse /\ pc = "done") =>
        [exc |-> exc, result |-> result]
            = ParseCommitSelection(hist, WithoutSpaces(selection))

\* a selection is returned for a range written with whitespace inside it
C8_Witness ==
    /\ Returned
    /\ \E k \in 1..Len(segments) :
           /\ IsRangeSeg(segments[k])
           /\ segments[k] # WithoutSpaces(segments[k])

\* C9: a token git cannot resolve ends the selection in the
\* "Invalid commit selection token" error, for a single and for either end
\* of a range; an empty token ends it in the same error, and no rev-parse
\* command is ever run on an empty token.
C9_UnknownReference ==
    InParse =>
    /\ \A i \in 1..Len(queries) :
           queries[i].op = "rev-parse" => queries[i].tok # <<>>
    /\ \A k \in 1..Len(segments) :
           LET seg == segments[k]
               unknown ==
                   \/ IsSingleSeg(seg) /\ ~Known(WithoutSpaces(seg))
                   \/ IsRangeSeg(seg)
                        /\ (~Known(StartToken(seg)) \/ ~Known(EndToken(seg)))
           IN  unknown =>
                 /\ ~Passed(k)
                 /\ RaisedOn(k) =>
                        /\ exc.type = "SelectionParseError"
                        /\ exc.head = "Invalid commit selection token"
                        /\ result = <<>>

\* the empty end of a range, after an earlier segment was resolved
C9_Witness ==
    /\ pc = "done"
    /\ exc.reason = "Commit hashes cannot be empty."
    /\ idx = 2
    /\ IsRangeSeg(segments[2])
    /\ Known(StartToken(segments[2]))

\* C10: every exception parse_commit_selection ends in is a
\* SelectionParseError, and an exception leaves nothing returned.
C10_FailFastSelectionError ==
    (pc = "done" /\ exc # NoExc) =>
        /\ exc.type = "SelectionParseError"
        /\ result = <<>>

\* ------------------------------------------- vocabulary of the later claims
\* the list the formatting functions were given
Ids == IF mainpc = "parse" \/ mainpc \in {"collect", "process", "exit"}
       THEN ShaList(result) ELSE arg

\* main has computed canonical string and tag and has not gone further
Announced == mainpc = "collect" /\ cidx = 1

\* main has computed canonical string and tag
MainTagged == mainpc \in {"collect", "process", "exit"}

RECURSIVE Orderings(_)
\* the lists that hold every element of S once
Orderings(S) ==
    IF S = {} THEN {<<>>}
    ELSE UNION {{<<x>> \o l : l \in Orderings(S \ {x})} : x \in S}

\* the other orderings of the identifiers of l
Reorderings(l) == Orderings(SeqRange(l)) \ {l}

First8(id) == [i \in 1..(IF Len(id) < 8 THEN Len(id) ELSE 8) |-> id[i]]

First8s(l) == [i \in 1..Len(l) |-> First8(l[i])]

CommitsDash == <<"c", "o", "m", "m", "i", "t", "s", "-">>

\* C12: every other ordering of the same distinct identifiers has another
\* canonical string, and in main another tag, also when identifiers share
\* their first 8 characters.
C12_OrderChangesStringAndTag ==
    /\ (Announced \/ mainpc = "called_format") =>
           \A q \in Reorderings(Ids) : FormatCommitSelection(q) # selection_canonical
    /\ Announced =>
           \A q \in Reorderings(Ids) :
               BuildSelectionTag(q, TagInput(q)) # selection_tag

\* what the code does keep: another ordering has another canonical string
\* exactly when its list of 8-character prefixes is another list, and the
\* text main gives build_selection_tag to hash is always another text
OrderChangesPrefixList ==
    /\ (Announced \/ mainpc = "called_format") =>
           \A q \in Reorderings(Ids) :
               (FormatCommitSelection(q) # selection_canonical)
                   <=> (First8s(q) # First8s(Ids))
    /\ Announced =>
           \A q \in Reorderings(Ids) : TagInput(q) # tag_input

\* main resolved a selection that holds two identifiers with the same first
\* 8 characters next to an identifier with other ones
SharedPrefixSelection ==
    /\ Announced
    /\ \E q \in Reorderings(Ids) : FormatCommitSelection(q) = selection_canonical
    /\ \E q \in Reorderings(Ids) : FormatCommitSelection(q) # selection_canonical

\* C13: the tag of a non-empty list is the first 8 characters of its first
\* identifier, "-", the first 8 characters of its last identifier, "-", the
\* number of identifiers, "commits-" and the digest of the text given as
\* canonical string; the tag of the empty list is "0commits-" and that digest.
C13_TagComposition ==
    (MainTagged \/ mainpc = "called_tag") =>
        LET ids == Ids
        IN  /\ selection_tag.digest = Sha1Hex8(tag_input)
            /\ ids = <<>> => selection_tag.text = <<"0">> \o CommitsDash
            /\ ids # <<>> =>
                   selection_tag.text =
                       First8(ids[1]) \o <<"-">> \o First8(ids[Len(ids)]) \o <<"-">>
                           \o Decimal(Len(ids)) \o CommitsDash

\* a tag of a list whose first and last identifier differ
C13_Witness ==
    /\ mainpc = "called_tag"
    /\ Len(arg) >= 2
    /\ First8(arg[1]) # First8(arg[Len(arg)])

C13_WitnessEmpty ==
    /\ mainpc = "called_tag"
    /\ arg = <<>>
    /\ selection_tag.text = <<"0">> \o CommitsDash

FirstOf(l, n) == [i \in 1..n |-> l[i]]

LastOf(l, n) == [i \in 1..n |-> l[Len(l) - n + i]]

\* C15: a preview of at most max_items identifiers shows all of them; a
\* preview of more shows the first edge_items and the last edge_items
\* shortened identifiers around " ... ", for every edge_items >= 0.
C15_PreviewEdges ==
    mainpc = "called_preview" =>
        LET short == First8s(arg)
            n == IF preview.edge_items < Len(arg) THEN preview.edge_items ELSE Len(arg)
        IN  IF Len(arg) <= preview.max_items
            THEN preview.text = Join(short, <<",", " ">>)
            ELSE preview.text =
                     Join(FirstOf(short, n), <<",", " ">>)
                         \o <<" ", ".", ".", ".", " ">>
                         \o Join(LastOf(short, n), <<",", " ">>)

\* the same for edge_items >= 1
PreviewEdgesPositive ==
    (mainpc = "called_preview" /\ preview.edge_items >= 1) => C15_PreviewEdges

\* the number of git commands an iteration on the range segment seg runs
RangeQueries(seg) ==
    IF StartToken(seg) = <<>> THEN 0
    ELSE IF ~Known(StartToken(seg)) THEN 1
    ELSE IF EndToken(seg) = <<>> THEN 1
    ELSE IF ~Known(EndToken(seg)) THEN 2
    ELSE IF ~AncestorOrSelf(StartOf(seg), EndOf(seg)) THEN 3
    ELSE 4

\* C16: an iteration on a range runs its git commands in the order resolve
\* start, resolve end, ancestry test, path enumeration, each at most once,
\* and stops at the first that fails; when the start token does not resolve
\* the exception names the start token whatever the end token is.
C16_RangeQueryOrder ==
    [][ (pc = "loop" /\ idx <= Len(segments) /\ IsRangeSeg(segments[idx])) =>
        LET seg == segments[idx]
            n == RangeQueries(seg)
        IN  /\ Len(NewQueries) = n
            /\ n >= 1 => NewQueries[1] = Query("rev-parse", StartToken(seg), 0, 0)
            /\ n >= 2 => NewQueries[2] = Query("rev-parse", EndToken(seg), 0, 0)
            /\ n >= 3 => NewQueries[3] =
                             Query("is-ancestor", <<>>, StartOf(seg), EndOf(seg))
            /\ n >= 4 => NewQueries[4] =
                             Query("rev-list", <<>>, StartOf(seg), EndOf(seg))
            /\ n < 4 => exc' # NoExc /\ pc' = "done"
            /\ ~Known(StartToken(seg)) =>
                   /\ exc'.head = "Invalid commit selection token"
                   /\ exc'.token = StartToken(seg)
            /\ (Known(StartToken(seg)) /\ ~Known(EndToken(seg))) =>
                   /\ exc'.head = "Invalid commit selection token"
                   /\ exc'.token = EndToken(seg) ]_vars

\* a range of two unknown tokens: one git command, the start token named
C16_Witness ==
    /\ pc = "done"
    /\ idx <= Len(segments)
    /\ IsRangeSeg(segments[idx])
    /\ StartToken(segments[idx]) # <<>>
    /\ EndToken(segments[idx]) # <<>>
    /\ ~Known(StartToken(segments[idx]))
    /\ ~Known(EndToken(segments[idx]))
    /\ StartToken(segments[idx]) # EndToken(segments[idx])
    /\ exc.token = StartToken(segments[idx])
    /\ Len(queries) = 1

RECURSIVE IsSubsequence(_, _)
\* l is what is left of s when some of its elements are taken out
IsSubsequence(l, s) ==
    IF l = <<>> THEN TRUE
    ELSE IF s = <<>> THEN FALSE
    ELSE IF Head(l) = Head(s) THEN IsSubsequence(Tail(l), Tail(s))
    ELSE IsSubsequence(l, Tail(s))

\* the place of identifier x in the list l
PlaceIn(l, x) == CHOOSE i \in 1..Len(l) : l[i] = x

\* C17: the commits reports were written for, without and with logs, are a
\* subsequence of the resolved selection: none from outside it, none twice,
\* none before a commit the selection puts before it; and none of them is a
\* commit that could not be looked up.
C17_ReportsFollowSelection ==
    ~InParse =>
        /\ IsSubsequence(successful_commits, ShaList(result))
        /\ IsSubsequence(successful_commits_with_logs, ShaList(result))
        /\ SeqRange(successful_commits) \cap SeqRange(missing_commits) = {}

\* reports for two commits with a skipped and a missing commit around them
C17_Witness ==
    /\ mainpc = "exit"
    /\ Len(successful_commits) = 2
    /\ Len(commit_infos) > 2
    /\ missing_commits # <<>>
    /\ \E x \in SeqRange(commit_infos) \ SeqRange(successful_commits) :
           /\ PlaceIn(ShaList(result), successful_commits[1]) < PlaceIn(ShaList(result), x)
           /\ PlaceIn(ShaList(result), x) < PlaceIn(ShaList(result), successful_commits[2])

\* C18: the identifiers seen are the identifiers of the list, the list is
\* not empty once an iteration ended without an exception, and the
\* "no commits parsed" exception is never raised.
C18_NoCommitsParsedUnreachable ==
    /\ seen = SeqRange(selected)
    /\ InParse => \A k \in 1..Len(segments) : Passed(k) => selected # <<>>
    /\ (pc = "loop" /\ idx > Len(segments)) => selected # <<>>
    /\ exc.reason # "no commits parsed."

\* a selection is returned whose second segment added nothing
C18_Witness ==
    /\ Returned
    /\ Len(segments) >= 2
    /\ Len(result) = 1

====
